---------------------------- MODULE Spec2Model ----------------------------
(***************************************************************************)
(* drizzle-select-utils: the field validator (validateFields) and the      *)
(* selector facade returned by createSelectorUtils(database): selectOnly,  *)
(* selectExcept, selectAll, selectOne, getCount, exists, pluck, selectRaw. *)
(*                                                                         *)
(* The database object is external.  What the facade does to it is the     *)
(* sequence of builder operations it invokes (select, from, where,         *)
(* groupBy, orderBy, limit, offset, execute), recorded in `ops`.  A call   *)
(* runs synchronously up to its single await (query.execute()), the        *)
(* executor then resolves or rejects, and the rest of the async function   *)
(* runs.                                                                   *)
(***************************************************************************)
EXTENDS Integers, Sequences, FiniteSets, TLC

VARIABLES
    pc,         \* "idle" | "awaiting" | "returned" | "threw"
    call,       \* the arguments of the call in progress
    ops,        \* builder operations invoked on `database` by this call, in order
    execResult, \* what query.execute() settled with
    outcome     \* what the call's promise settled with

vars == <<pc, call, ops, execResult, outcome>>

---------------------------------------------------------------------------
(* Bounds of the model *)

MaxFields == 3      \* longest field list
MaxConds == 2       \* longest where array
MaxExprs == 2       \* longest groupBy / orderBy array
MaxRows == 2        \* most rows a result holds
MaxDigits == 2      \* longest decimal string an aggregate comes back as
MaxCount == 2       \* largest aggregate that comes back as a number

(* Program constants *)

SelectOnlyDefaultLimit == 25
SelectExceptDefaultLimit == 10
SelectAllDefaultLimit == 25
DefaultOffset == 0
SelectOneLimit == 1
ExistsLimit == 1
CountFallback == 0

---------------------------------------------------------------------------
(* Values *)

SeqsUpTo(S, n) == UNION {[1..k -> S] : k \in 0..n}

\* An optional number (limit?: number): <<>> is undefined, <<n>> is n.
None == <<>>
Some(x) == <<x>>

\* a || b: a supplied 0 falls back as well
NullishOrZero(a, b) == IF a = None \/ a[1] = 0 THEN b ELSE a[1]

\* a ?? b
Nullish(a, b) == IF a = None THEN b ELSE a[1]

\* Field names a caller can pass: columns, the reserved key, a name the table
\* does not have, and a name every object inherits from Object.prototype.
ReservedKey == "_"
Names == {"id", "name", "_", "password", "toString"}

\* A table object: its own enumerable properties in insertion order (what
\* Object.keys / Object.entries enumerate) and the names it only inherits.
users ==
    [name |-> "users",
     entries |-> << [key |-> "id", value |-> "users.id"],
                    [key |-> "name", value |-> "users.name"],
                    [key |-> "_", value |-> "users._"] >>,
     inherited |-> {"toString"}]

posts ==
    [name |-> "posts",
     entries |-> << [key |-> "name", value |-> "posts.name"],
                    [key |-> "id", value |-> "posts.id"] >>,
     inherited |-> {"toString"}]

Tables == {users, posts}

\* Object.keys(table)
ObjectKeys(table) == [i \in 1..Len(table.entries) |-> table.entries[i].key]

\* Object.entries(table)
ObjectEntries(table) == table.entries

Range(s) == {s[i] : i \in 1..Len(s)}

\* field in table: own or inherited
FieldIn(field, table) == field \in Range(ObjectKeys(table)) \cup table.inherited

FieldLists == SeqsUpTo(Names, MaxFields)

\* SQL conditions: two conditions and a falsy entry (undefined / null / false).
Falsy == "falsy"
Conds == {"c1", "c2"}
CondEntries == Conds \cup {Falsy}

Absent == [kind |-> "absent"]
Single(v) == [kind |-> "single", v |-> v]
Array(s) == [kind |-> "array", v |-> s]

\* where?: SQL | SQL[]
WhereValues ==
    {Absent} \cup {Single(c) : c \in CondEntries}
             \cup {Array(s) : s \in SeqsUpTo(CondEntries, MaxConds)}

GroupExprs == {"g1", "g2"}
OrderExprs == {"o1", "o2"}

GroupByValues ==
    {Absent} \cup {Single(e) : e \in GroupExprs}
             \cup {Array(s) : s \in SeqsUpTo(GroupExprs, MaxExprs)}

OrderByValues ==
    {Absent} \cup {Single(e) : e \in OrderExprs}
             \cup {Array(s) : s \in SeqsUpTo(OrderExprs, MaxExprs)}

\* pagination?: { limit?: number; offset?: number }
Limits == {None, Some(0), Some(7)}
Offsets == {None, Some(3)}
PaginationValues ==
    {Absent} \cup {[kind |-> "object", limit |-> l, offset |-> o] :
                      l \in Limits, o \in Offsets}

NoOptions == [kind |-> "undefined"]

OptionsObject(w, g, o, p) ==
    [kind |-> "object", where |-> w, groupBy |-> g, orderBy |-> o,
     pagination |-> p]


\* options?.where, options?.groupBy, options?.orderBy, options?.pagination
OptWhere(options) == IF options.kind = "undefined" THEN Absent ELSE options.where
OptGroupBy(options) == IF options.kind = "undefined" THEN Absent ELSE options.groupBy
OptOrderBy(options) == IF options.kind = "undefined" THEN Absent ELSE options.orderBy
OptPagination(options) ==
    IF options.kind = "undefined" THEN Absent ELSE options.pagination

\* The truthiness of an option member: undefined and a falsy single value are
\* falsy, every array (the empty one too) and every object is truthy.
Truthy(v) ==
    CASE v.kind = "absent" -> FALSE
      [] v.kind = "single" -> v.v # Falsy
      [] OTHER -> TRUE

\* a lone value taken for no entry at all
AsArrayOfArraysOnly(v) ==
    CASE v.kind = "array" -> v.v
      [] OTHER -> <<>>

\* Array.isArray(v) ? v : [v]   (an absent value is the entry undefined)
AsArray(v) ==
    CASE v.kind = "array" -> v.v
      [] v.kind = "single" -> <<v.v>>
      [] OTHER -> <<Falsy>>

\* array.filter(keep), given the set K of the positions keep accepts: the
\* entries at those positions, in order
Filter(s, K) ==
    [j \in 1..Cardinality(K) |->
        s[CHOOSE i \in K : Cardinality({k \in K : k < i}) = j - 1]]

\* array.indexOf(x): the first index holding x, 0 when there is none
\* (indices are 1-based here; JavaScript's are 0-based with -1 for none)
IndexOf(s, x) ==
    IF \E i \in 1..Len(s) : s[i] = x
    THEN CHOOSE i \in 1..Len(s) : s[i] = x /\ \A j \in 1..(i - 1) : s[j] # x
    ELSE 0

\* array.includes(x)
Includes(s, x) == \E i \in 1..Len(s) : s[i] = x

---------------------------------------------------------------------------
(* validateFields *)

\* fields.filter((field, index) => fields.indexOf(field) !== index)
Duplicates(fields) ==
    Filter(fields, {index \in 1..Len(fields) : IndexOf(fields, fields[index]) # index})

\* fields.filter((field) => !(field in table) || field === "_")
InvalidFields(table, fields) ==
    Filter(fields, {i \in 1..Len(fields) :
                       ~FieldIn(fields[i], table) \/ fields[i] = ReservedKey})

\* Object.keys(table).filter((k) => k !== "_")
AvailableFields(table) ==
    Filter(ObjectKeys(table),
           {i \in 1..Len(ObjectKeys(table)) : ObjectKeys(table)[i] # ReservedKey})

DuplicateFieldError(operation, duplicates) ==
    [type |-> "DuplicateFields", operation |-> operation, fields |-> duplicates]

InvalidFieldError(invalidFields, available) ==
    [type |-> "InvalidFields", fields |-> invalidFields, available |-> available]

Ok == [threw |-> FALSE]
Throw(e) == [threw |-> TRUE, error |-> e]

\* validateFields with the two checks in the other order
validateFieldsInvalidFirst(table, fields, operation) ==
    LET duplicates == Duplicates(fields)
        invalidFields == InvalidFields(table, fields)
    IN  IF Len(invalidFields) > 0
        THEN Throw(InvalidFieldError(invalidFields, AvailableFields(table)))
        ELSE IF Len(duplicates) > 0
             THEN Throw(DuplicateFieldError(operation, duplicates))
             ELSE Ok

validateFields(table, fields, operation) ==
    LET duplicates == Duplicates(fields)
        invalidFields == InvalidFields(table, fields)
    IN  IF Len(duplicates) > 0
        THEN Throw(DuplicateFieldError(operation, duplicates))
        ELSE IF Len(invalidFields) > 0
             THEN Throw(InvalidFieldError(invalidFields, AvailableFields(table)))
             ELSE Ok

---------------------------------------------------------------------------
(* Query building *)

Op(name, arg) == [name |-> name, arg |-> arg]

\* and(...conditions)
And(conditions) == [kind |-> "and", conds |-> conditions]

\* selectOnly's column map without the membership test
IncludeColumnsAll(table, includeFields) ==
    Filter(ObjectEntries(table),
           {i \in 1..Len(ObjectEntries(table)) : ObjectEntries(table)[i].key # ReservedKey})

\* selectExcept's column map without the reserved-key test
ExcludeColumnsReserved(table, excludeFields) ==
    Filter(ObjectEntries(table),
           {i \in 1..Len(ObjectEntries(table)) :
               ~Includes(excludeFields, ObjectEntries(table)[i].key)})

\* The column map selectOnly builds
IncludeColumns(table, includeFields) ==
    Filter(ObjectEntries(table),
           {i \in 1..Len(ObjectEntries(table)) :
               /\ Includes(includeFields, ObjectEntries(table)[i].key)
               /\ ObjectEntries(table)[i].key # ReservedKey})

\* selectExcept's column map without the exclusion test
ExcludeColumnsNone(table, excludeFields) ==
    Filter(ObjectEntries(table),
           {i \in 1..Len(ObjectEntries(table)) :
               ObjectEntries(table)[i].key # ReservedKey})

\* The column map selectExcept builds
ExcludeColumns(table, excludeFields) ==
    Filter(ObjectEntries(table),
           {i \in 1..Len(ObjectEntries(table)) :
               /\ ~Includes(excludeFields, ObjectEntries(table)[i].key)
               /\ ObjectEntries(table)[i].key # ReservedKey})

Columns(cols) == [kind |-> "columns", columns |-> cols]
AllColumns == [kind |-> "all"]
CountColumn == [kind |-> "count"]
ExistsColumn == [kind |-> "exists"]

\* database.select(projection).from(table)
SelectFrom(projection, table) ==
    << Op("select", projection), Op("from", table.name) >>

\* the where clause without the falsy entries filtered out
ApplyWhereUnfiltered(query, options) ==
    IF Truthy(OptWhere(options))
    THEN Append(query, Op("where", And(AsArray(OptWhere(options)))))
    ELSE query

\* if (options?.where) { ... query.where(and(...validConditions)) }
ApplyWhere(query, options) ==
    IF Truthy(OptWhere(options))
    THEN LET whereConditions == AsArray(OptWhere(options))
             validConditions ==
                 Filter(whereConditions,
                        {i \in 1..Len(whereConditions) : whereConditions[i] # Falsy})
         IN  IF Len(validConditions) > 0
             THEN Append(query, Op("where", And(validConditions)))
             ELSE query
    ELSE query

\* if (options?.groupBy) { query.groupBy(...groupByExpressions) }
ApplyGroupBy(query, options) ==
    IF Truthy(OptGroupBy(options))
    THEN Append(query, Op("groupBy", AsArray(OptGroupBy(options))))
    ELSE query

\* orderBy given the first expression only
ApplyOrderByFirstOnly(query, options) ==
    IF Truthy(OptOrderBy(options))
    THEN LET orderByExpressions == AsArray(OptOrderBy(options))
         IN  Append(query, Op("orderBy", IF Len(orderByExpressions) > 0
                                         THEN <<orderByExpressions[1]>>
                                         ELSE <<>>))
    ELSE query

\* if (options?.orderBy) { query.orderBy(...orderByExpressions) }
ApplyOrderBy(query, options) ==
    IF Truthy(OptOrderBy(options))
    THEN Append(query, Op("orderBy", AsArray(OptOrderBy(options))))
    ELSE query

\* if (options?.pagination) { query.limit(limit ?? d).offset(offset ?? 0) }
ApplyPagination(query, options, defaultLimit) ==
    IF Truthy(OptPagination(options))
    THEN query \o << Op("limit", Nullish(OptPagination(options).limit, defaultLimit)),
                     Op("offset", Nullish(OptPagination(options).offset, DefaultOffset)) >>
    ELSE query

\* the query executed a second time
ExecuteTwice(query) == Append(Append(query, Op("execute", None)), Op("execute", None))

\* query.execute()
Execute(query) == Append(query, Op("execute", None))

\* the same steps with orderBy applied before groupBy
SelectQueryOrderFirst(projection, table, options, defaultLimit) ==
    Execute(
      ApplyPagination(
        ApplyGroupBy(
          ApplyOrderBy(
            ApplyWhere(SelectFrom(projection, table), options),
            options),
          options),
        options, defaultLimit))

\* The builder operations of selectOnly / selectExcept / selectAll after validation
SelectQuery(projection, table, options, defaultLimit) ==
    Execute(
      ApplyPagination(
        ApplyOrderBy(
          ApplyGroupBy(
            ApplyWhere(SelectFrom(projection, table), options),
            options),
          options),
        options, defaultLimit))

\* getCount building its query as selectAll does: groupBy and pagination too
CountQueryPaginated(table, options) ==
    SelectQuery(CountColumn, table, options, SelectAllDefaultLimit)

\* The builder operations of getCount: where and orderBy only
CountQuery(table, options) ==
    Execute(ApplyOrderBy(ApplyWhere(SelectFrom(CountColumn, table), options), options))

\* The builder operations of exists.  The where argument is passed to and()
\* as it comes, falsy entries included; nothing is checked first.  (The
\* projection is built with database.sql, which the code takes the database
\* object to provide.)
ExistsQuery(table, where) ==
    Execute(SelectFrom(ExistsColumn, table)
              \o << Op("where", And(AsArray(where))), Op("limit", ExistsLimit) >>)

\* { ...options, pagination: { limit: 1 } }
SelectOneOptions(options) ==
    OptionsObject(OptWhere(options), OptGroupBy(options), OptOrderBy(options),
                  [kind |-> "object", limit |-> Some(SelectOneLimit), offset |-> None])

\* The builder operations of selectOnly(table, includeFields, options)
SelectOnlyQuery(table, includeFields, options) ==
    SelectQuery(Columns(IncludeColumns(table, includeFields)), table, options,
                SelectOnlyDefaultLimit)

\* The builder operations of selectExcept(table, excludeFields, options)
SelectExceptQuery(table, excludeFields, options) ==
    SelectQuery(Columns(ExcludeColumns(table, excludeFields)), table, options,
                SelectExceptDefaultLimit)

\* The builder operations of selectAll(table, options)
SelectAllQuery(table, options) ==
    SelectQuery(AllColumns, table, options, SelectAllDefaultLimit)

\* selectOne: selectAll(table, { ...options, pagination: { limit: 1 } })
SelectOneQuery(table, options) == SelectAllQuery(table, SelectOneOptions(options))

\* pluck: selectOnly(table, [field], options)
PluckQuery(table, field, options) == SelectOnlyQuery(table, <<field>>, options)

\* the raw expression sent through the query builder first
RawQueryThroughBuilder(rawSql) ==
    << Op("select", AllColumns), Op("execute", Some(rawSql)) >>

\* selectRaw: database.execute(rawSql), and nothing else
RawQuery(rawSql) == << Op("execute", Some(rawSql)) >>

\* What the call c validates before it builds anything: selectOnly,
\* selectExcept and pluck call validateFields, the other operations nothing
ValidationOf(c) ==
    CASE c.op = "selectOnly" -> validateFields(c.table, c.fields, "select")
      [] c.op = "selectExcept" -> validateFields(c.table, c.fields, "exclude")
      [] c.op = "pluck" -> validateFields(c.table, <<c.field>>, "select")
      [] OTHER -> Ok

\* The builder operations the call c issues once it is past validation
QueryOf(c) ==
    CASE c.op = "selectOnly" -> SelectOnlyQuery(c.table, c.fields, c.options)
      [] c.op = "selectExcept" -> SelectExceptQuery(c.table, c.fields, c.options)
      [] c.op = "selectAll" -> SelectAllQuery(c.table, c.options)
      [] c.op = "selectOne" -> SelectOneQuery(c.table, c.options)
      [] c.op = "getCount" -> CountQuery(c.table, c.options)
      [] c.op = "exists" -> ExistsQuery(c.table, c.where)
      [] c.op = "pluck" -> PluckQuery(c.table, c.field, c.options)
      [] c.op = "selectRaw" -> RawQuery(c.rawSql)

---------------------------------------------------------------------------
(* What the executor returns, and what each operation makes of it *)

Undefined == "undefined"
RowIds == {"r1", "r2"}
SelectResults == SeqsUpTo(RowIds, MaxRows)

\* row[field]
RowField(row, field) == <<row, field>>

\* the last row in place of the first
Last(results) == IF Len(results) > 0 THEN results[Len(results)] ELSE "undefined"

\* results[0]
First(results) == IF Len(results) > 0 THEN results[1] ELSE Undefined

\* the rows taken last to first
PluckFieldReversed(rows, field) ==
    [i \in 1..Len(rows) |-> RowField(rows[Len(rows) + 1 - i], field)]

\* rows.map((row) => row[field])
PluckField(rows, field) == [i \in 1..Len(rows) |-> RowField(rows[i], field)]

\* The aggregate of a count row: a number, a decimal string (the driver's
\* rendering of a bigint), null, or no value at all.
Digits == 0..9
NumberValue(n) == [t |-> "number", n |-> n]
StringValue(digits) == [t |-> "string", digits |-> digits]
NullValue == [t |-> "null"]
UndefinedValue == [t |-> "undefined"]

CountValues ==
    {NumberValue(n) : n \in 0..MaxCount}
      \cup {StringValue(d) : d \in SeqsUpTo(Digits, MaxDigits)}
      \cup {NullValue, UndefinedValue}

CountResults == {<<>>} \cup {<<[value |-> v]>> : v \in CountValues}

\* The number a decimal string denotes ("" is 0, leading zeros are dropped)
RECURSIVE DecimalValue(_)
DecimalValue(digits) ==
    IF digits = <<>> THEN 0
    ELSE 10 * DecimalValue(SubSeq(digits, 1, Len(digits) - 1)) + digits[Len(digits)]

\* Number(v) for a number or a decimal string
ToNumber(v) == IF v.t = "number" THEN v.n ELSE DecimalValue(v.digits)

\* result[0]?.value ?? 0
FirstValueOr(result, fallback) ==
    IF Len(result) = 0 THEN NumberValue(fallback)
    ELSE IF result[1].value.t \in {"null", "undefined"} THEN NumberValue(fallback)
         ELSE result[1].value

\* the number of rows in place of the aggregate
CountOfRows(result) == Len(result)

\* Number(result[0]?.value ?? 0)
CountOf(result) == ToNumber(FirstValueOr(result, CountFallback))

\* more than one row in place of at least one
ExistsOfSeveral(result) == Len(result) > 1

\* !!result[0]
ExistsOf(result) == Len(result) > 0

\* What the executor can reject with
ExecErrors == {[type |-> "Execution", message |-> "connection lost"]}
RawSqls == {"sql1", "sql2"}

---------------------------------------------------------------------------
(* The calls the model makes *)

SomeWhere == Single("c1")
SomeGroupBy == Array(<<"g1", "g2">>)
SomeOrderBy == Single("o1")
SomePagination == [kind |-> "object", limit |-> Some(7), offset |-> Some(3)]

\* Option objects: each member ranges over all its values while the other
\* members are absent or hold one value.
Options ==
    {NoOptions}
      \cup {OptionsObject(w, g, o, p) : w \in WhereValues, g \in {Absent, SomeGroupBy},
                                        o \in {Absent, SomeOrderBy},
                                        p \in {Absent, SomePagination}}
      \cup {OptionsObject(w, g, o, p) : w \in {Absent, SomeWhere}, g \in GroupByValues,
                                        o \in {Absent, SomeOrderBy},
                                        p \in {Absent, SomePagination}}
      \cup {OptionsObject(w, g, o, p) : w \in {Absent, SomeWhere}, g \in {Absent, SomeGroupBy},
                                        o \in OrderByValues,
                                        p \in {Absent, SomePagination}}
      \cup {OptionsObject(w, g, o, p) : w \in {Absent, SomeWhere}, g \in {Absent, SomeGroupBy},
                                        o \in {Absent, SomeOrderBy},
                                        p \in PaginationValues}

FewOptions == {NoOptions, OptionsObject(SomeWhere, SomeGroupBy, SomeOrderBy, SomePagination)}
FewFieldLists == {<<"id">>, <<"name", "id">>}

\* Field lists and options of selectOnly / selectExcept: every field list with
\* few options, and every option object with few field lists.
FieldInputs == (FieldLists \X FewOptions) \cup (FewFieldLists \X Options)

\* Field and options of pluck
PluckInputs == (Names \X FewOptions) \cup ({"id"} \X Options)

NoCall == [op |-> "none"]
NoResult == [kind |-> "none"]
Resolved(rows) == [kind |-> "resolved", rows |-> rows]
Rejected(e) == [kind |-> "rejected", error |-> e]
NoOutcome == [kind |-> "none"]
Value(v) == [kind |-> "value", value |-> v]
Error(e) == [kind |-> "error", error |-> e]

Init ==
    /\ pc = "idle"
    /\ call = NoCall
    /\ ops = <<>>
    /\ execResult = NoResult
    /\ outcome = NoOutcome

\* The synchronous part of a call: validation throws before anything is built,
\* or the query is built and executed and the call awaits it.
Started(c, validation, query) ==
    [call |-> c,
     pc |-> IF validation.threw THEN "threw" ELSE "awaiting",
     ops |-> IF validation.threw THEN <<>> ELSE query,
     outcome |-> IF validation.threw THEN Error(validation.error) ELSE NoOutcome]

selectOnly ==
    /\ pc = "idle"
    /\ \E table \in Tables, in \in FieldInputs :
        LET s == Started([op |-> "selectOnly", table |-> table, fields |-> in[1],
                          options |-> in[2]],
                         validateFields(table, in[1], "select"),
                         SelectOnlyQuery(table, in[1], in[2]))
        IN  /\ call' = s.call
            /\ pc' = s.pc
            /\ ops' = s.ops
            /\ outcome' = s.outcome
    /\ execResult' = NoResult

selectExcept ==
    /\ pc = "idle"
    /\ \E table \in Tables, in \in FieldInputs :
        LET s == Started([op |-> "selectExcept", table |-> table, fields |-> in[1],
                          options |-> in[2]],
                         validateFields(table, in[1], "exclude"),
                         SelectExceptQuery(table, in[1], in[2]))
        IN  /\ call' = s.call
            /\ pc' = s.pc
            /\ ops' = s.ops
            /\ outcome' = s.outcome
    /\ execResult' = NoResult

selectAll ==
    /\ pc = "idle"
    /\ \E table \in Tables, options \in Options :
        /\ call' = [op |-> "selectAll", table |-> table, options |-> options]
        /\ ops' = SelectAllQuery(table, options)
    /\ pc' = "awaiting"
    /\ outcome' = NoOutcome
    /\ execResult' = NoResult

\* selectOne awaits selectAll(table, { ...options, pagination: { limit: 1 } })
selectOne ==
    /\ pc = "idle"
    /\ \E table \in Tables, options \in Options :
        /\ call' = [op |-> "selectOne", table |-> table, options |-> options]
        /\ ops' = SelectOneQuery(table, options)
    /\ pc' = "awaiting"
    /\ outcome' = NoOutcome
    /\ execResult' = NoResult

getCount ==
    /\ pc = "idle"
    /\ \E table \in Tables, options \in Options :
        /\ call' = [op |-> "getCount", table |-> table, options |-> options]
        /\ ops' = CountQuery(table, options)
    /\ pc' = "awaiting"
    /\ outcome' = NoOutcome
    /\ execResult' = NoResult

exists ==
    /\ pc = "idle"
    /\ \E table \in Tables, where \in WhereValues :
        /\ call' = [op |-> "exists", table |-> table, where |-> where]
        /\ ops' = ExistsQuery(table, where)
    /\ pc' = "awaiting"
    /\ outcome' = NoOutcome
    /\ execResult' = NoResult

\* pluck awaits selectOnly(table, [field], options)
pluck ==
    /\ pc = "idle"
    /\ \E table \in Tables, in \in PluckInputs :
        LET s == Started([op |-> "pluck", table |-> table, field |-> in[1],
                          options |-> in[2]],
                         validateFields(table, <<in[1]>>, "select"),
                         PluckQuery(table, in[1], in[2]))
        IN  /\ call' = s.call
            /\ pc' = s.pc
            /\ ops' = s.ops
            /\ outcome' = s.outcome
    /\ execResult' = NoResult

\* database.execute(rawSql)
selectRaw ==
    /\ pc = "idle"
    /\ \E rawSql \in RawSqls :
        /\ call' = [op |-> "selectRaw", rawSql |-> rawSql]
        /\ ops' = RawQuery(rawSql)
    /\ pc' = "awaiting"
    /\ outcome' = NoOutcome
    /\ execResult' = NoResult

\* What the executor can resolve the pending execute with
ResultsOf(op) == IF op = "getCount" THEN CountResults ELSE SelectResults

\* The rest of the async function, once execute has resolved with `result`
Continue(c, result) ==
    CASE c.op = "selectOne" -> First(result)
      [] c.op = "getCount" -> CountOf(result)
      [] c.op = "exists" -> ExistsOf(result)
      [] c.op = "pluck" -> PluckField(result, c.field)
      [] OTHER -> result

ExecuteResolves ==
    /\ pc = "awaiting"
    /\ \E result \in ResultsOf(call.op) :
          /\ execResult' = Resolved(result)
          /\ outcome' = Value(Continue(call, result))
    /\ pc' = "returned"
    /\ UNCHANGED <<call, ops>>

\* the rejection caught and turned into an empty result
RethrowAsEmpty(c, e) == Value(<<>>)

\* The rest of the async function, once execute has rejected with `e`: no
\* operation has a try / catch, so the call's promise rejects with e itself
Rethrow(c, e) == Error(e)

ExecuteRejects ==
    /\ pc = "awaiting"
    /\ \E e \in ExecErrors :
          /\ execResult' = Rejected(e)
          /\ outcome' = Rethrow(call, e)
          /\ pc' = IF Rethrow(call, e).kind = "error" THEN "threw" ELSE "returned"
    /\ UNCHANGED <<call, ops>>

\* The caller has the settled promise; the next call starts from scratch
Return ==
    /\ pc \in {"returned", "threw"}
    /\ pc' = "idle"
    /\ call' = NoCall
    /\ ops' = <<>>
    /\ execResult' = NoResult
    /\ outcome' = NoOutcome

Next ==
    \/ selectOnly
    \/ selectExcept
    \/ selectAll
    \/ selectOne
    \/ getCount
    \/ exists
    \/ pluck
    \/ selectRaw
    \/ ExecuteResolves
    \/ ExecuteRejects
    \/ Return

Spec == Init /\ [][Next]_vars

---------------------------------------------------------------------------
(* Two calls on the same utilities object.  JavaScript runs each call without
   interruption up to its await, so a call is a step up to the await of
   execute and a step after it; the steps of the two calls interleave freely.
   The variables hold, per call, what they hold for the single call above. *)

Calls == {"first", "second"}

FullOptions == OptionsObject(SomeWhere, SomeGroupBy, SomeOrderBy, SomePagination)

\* The calls made here: every operation, selectOnly also with other arguments
\* and with a field list the validator rejects
Invocations ==
    { [op |-> "selectOnly", table |-> users, fields |-> <<"name", "id">>,
       options |-> FullOptions],
      [op |-> "selectOnly", table |-> users, fields |-> <<"id">>, options |-> NoOptions],
      [op |-> "selectOnly", table |-> posts, fields |-> <<"id", "id">>,
       options |-> NoOptions],
      [op |-> "selectExcept", table |-> users, fields |-> <<"id">>,
       options |-> FullOptions],
      [op |-> "selectAll", table |-> posts, options |-> FullOptions],
      [op |-> "selectOne", table |-> users, options |-> NoOptions],
      [op |-> "getCount", table |-> users, options |-> FullOptions],
      [op |-> "exists", table |-> users, where |-> SomeWhere],
      [op |-> "pluck", table |-> users, field |-> "id", options |-> NoOptions],
      [op |-> "selectRaw", rawSql |-> "sql1"] }

\* What the executor answers here
AnswersOf(op) ==
    IF op = "getCount"
    THEN {<<>>, << [value |-> NumberValue(2)] >>, << [value |-> StringValue(<<1, 9>>)] >>}
    ELSE {<<>>, <<"r1">>, <<"r2", "r1">>}

InitConc ==
    /\ pc = [s \in Calls |-> "idle"]
    /\ call = [s \in Calls |-> NoCall]
    /\ ops = [s \in Calls |-> <<>>]
    /\ execResult = [s \in Calls |-> NoResult]
    /\ outcome = [s \in Calls |-> NoOutcome]

\* What the other call has built and is awaiting while call s starts
Pending(s) ==
    LET t == CHOOSE t \in Calls : t # s
    IN  IF pc[t] = "awaiting" THEN ops[t] ELSE <<>>

\* one builder kept in the closure and used by every call
SharedQuery(c, pending) == pending \o QueryOf(c)

\* let query = database.select(...).from(table): the builder is a local of the
\* call, made anew by the call; createSelectorUtils keeps only `database`
LocalQuery(c, pending) == QueryOf(c)

\* Call s runs up to its await
Invoke(s) ==
    /\ pc[s] = "idle"
    /\ \E c \in Invocations :
        LET st == Started(c, ValidationOf(c), LocalQuery(c, Pending(s)))
        IN  /\ call' = [call EXCEPT ![s] = st.call]
            /\ pc' = [pc EXCEPT ![s] = st.pc]
            /\ ops' = [ops EXCEPT ![s] = st.ops]
            /\ outcome' = [outcome EXCEPT ![s] = st.outcome]
    /\ execResult' = [execResult EXCEPT ![s] = NoResult]

\* The execute of call s resolves and the call runs to its return
Resolves(s) ==
    /\ pc[s] = "awaiting"
    /\ \E result \in AnswersOf(call[s].op) :
          /\ execResult' = [execResult EXCEPT ![s] = Resolved(result)]
          /\ outcome' = [outcome EXCEPT ![s] = Value(Continue(call[s], result))]
    /\ pc' = [pc EXCEPT ![s] = "returned"]
    /\ UNCHANGED <<call, ops>>

\* The execute of call s rejects
Rejects(s) ==
    /\ pc[s] = "awaiting"
    /\ \E e \in ExecErrors :
          /\ execResult' = [execResult EXCEPT ![s] = Rejected(e)]
          /\ outcome' = [outcome EXCEPT ![s] = Rethrow(call[s], e)]
          /\ pc' = [pc EXCEPT ![s] =
                       IF Rethrow(call[s], e).kind = "error" THEN "threw" ELSE "returned"]
    /\ UNCHANGED <<call, ops>>

\* The caller has the settled promise of call s
Returns(s) ==
    /\ pc[s] \in {"returned", "threw"}
    /\ pc' = [pc EXCEPT ![s] = "idle"]
    /\ call' = [call EXCEPT ![s] = NoCall]
    /\ ops' = [ops EXCEPT ![s] = <<>>]
    /\ execResult' = [execResult EXCEPT ![s] = NoResult]
    /\ outcome' = [outcome EXCEPT ![s] = NoOutcome]

NextConc ==
    \E s \in Calls :
        \/ Invoke(s)
        \/ Resolves(s)
        \/ Rejects(s)
        \/ Returns(s)

SpecConc == InitConc /\ [][NextConc]_vars

---------------------------------------------------------------------------
(* Properties *)

\* The call in progress passed its validation: it built and executed a query
Accepted == Len(ops) > 0

\* The positions of the builder operation `name` in this call
OpsNamed(name) == {i \in 1..Len(ops) : ops[i].name = name}

\* The argument of the builder operation `name` (when it was invoked)
ArgOf(name) == ops[CHOOSE i \in OpsNamed(name) : TRUE].arg

TakesFields == call.op \in {"selectOnly", "selectExcept", "pluck"}

\* The field list the call hands to validateFields, and the label it passes
FieldsOfCall == IF call.op = "pluck" THEN <<call.field>> ELSE call.fields
LabelOfCall == IF call.op = "selectExcept" THEN "exclude" ELSE "select"

HasRepeat(s) == \E i, j \in 1..Len(s) : i < j /\ s[i] = s[j]

\* The entries of s at the positions in I, in order
RECURSIVE At(_, _)
At(s, I) ==
    IF s = <<>> THEN <<>>
    ELSE LET front == At(SubSeq(s, 1, Len(s) - 1), I)
         IN  IF Len(s) \in I THEN Append(front, s[Len(s)]) ELSE front

\* The positions of s holding a name that an earlier position holds too
LaterOccurrences(s) == {i \in 1..Len(s) : \E j \in 1..(i - 1) : s[j] = s[i]}

OwnKeys(table) == {table.entries[i].key : i \in 1..Len(table.entries)}

\* C1: a field list with a repeated name fails with the duplicate-field error,
\* whatever else it holds, never with the invalid-field error; the error carries
\* the operation label and names every occurrence after the first of a name, in
\* list order, and nothing else.
C1_DuplicateError ==
    (TakesFields /\ HasRepeat(FieldsOfCall)) =>
        /\ pc = "threw"
        /\ outcome.kind = "error"
        /\ outcome.error.type = "DuplicateFields"
        /\ outcome.error.operation = LabelOfCall
        /\ outcome.error.fields = At(FieldsOfCall, LaterOccurrences(FieldsOfCall))

\* A list that repeats an unknown name and also holds the reserved key, excluded
C1_Witness ==
    /\ call.op = "selectExcept"
    /\ call.table = users
    /\ call.fields = <<"password", "_", "password">>
    /\ pc = "threw"
    /\ outcome.error.type = "DuplicateFields"
    /\ outcome.error.operation = "exclude"
    /\ outcome.error.fields = <<"password">>

\* C2: a duplicate-free field list holding a name that is not a key of the table,
\* or the reserved key, fails with the invalid-field error under either label;
\* the error names every such field and lists the table's non-reserved keys.
C2_InvalidError ==
    LET fields == FieldsOfCall
        bad == {i \in 1..Len(fields) :
                    fields[i] \notin OwnKeys(call.table) \/ fields[i] = ReservedKey}
    IN  (TakesFields /\ ~HasRepeat(fields) /\ bad # {}) =>
            /\ pc = "threw"
            /\ outcome.kind = "error"
            /\ outcome.error.type = "InvalidFields"
            /\ outcome.error.fields = At(fields, bad)
            /\ outcome.error.available =
                  At(ObjectKeys(call.table),
                     {i \in 1..Len(call.table.entries) :
                          call.table.entries[i].key # ReservedKey})

\* The column map handed to database.select, as a set of entries
SelectedColumns == Range(ArgOf("select").columns)

\* C3: for an accepted field list, selectOnly's projection holds exactly the
\* table columns named in the list, each with its own descriptor, never the
\* reserved key; for the empty list it is the empty map.
C3_SelectOnlyProjection ==
    (call.op = "selectOnly" /\ Accepted) =>
        /\ ops[1].name = "select"
        /\ ops[1].arg.kind = "columns"
        /\ SelectedColumns =
              {e \in Range(call.table.entries) : e.key \in Range(call.fields)}
        /\ \A e \in SelectedColumns : e.key # ReservedKey
        /\ Cardinality(SelectedColumns) = Len(ops[1].arg.columns)
        /\ (call.fields = <<>> => ops[1].arg.columns = <<>>)

C3_Witness ==
    /\ call.op = "selectOnly"
    /\ call.table = users
    /\ call.fields = <<"name", "id">>
    /\ pc = "awaiting"
    /\ ops[1].arg.columns = << [key |-> "id", value |-> "users.id"],
                               [key |-> "name", value |-> "users.name"] >>

\* C4: for an accepted exclusion list, selectExcept's projection holds exactly
\* the non-reserved table columns not named in the list (all of them for the
\* empty list), never the reserved key.
C4_SelectExceptProjection ==
    (call.op = "selectExcept" /\ Accepted) =>
        /\ ops[1].name = "select"
        /\ ops[1].arg.kind = "columns"
        /\ SelectedColumns =
              {e \in Range(call.table.entries) :
                  e.key # ReservedKey /\ e.key \notin Range(call.fields)}
        /\ \A e \in SelectedColumns : e.key # ReservedKey
        /\ Cardinality(SelectedColumns) = Len(ops[1].arg.columns)

C4_Witness ==
    /\ call.op = "selectExcept"
    /\ call.table = users
    /\ call.fields = <<"id">>
    /\ pc = "awaiting"
    /\ ops[1].arg.columns = << [key |-> "name", value |-> "users.name"] >>

\* The pagination member the caller supplied
PaginationOfCall == OptPagination(call.options)

\* C5: with no options, or options without a pagination member, selectOnly,
\* selectAll and pluck still apply limit 25 and offset 0, selectExcept limit 10
\* and offset 0.
C5_DefaultPagination ==
    (/\ call.op \in {"selectOnly", "selectExcept", "selectAll", "pluck"}
     /\ Accepted
     /\ PaginationOfCall.kind = "absent") =>
        /\ Cardinality(OpsNamed("limit")) = 1
        /\ Cardinality(OpsNamed("offset")) = 1
        /\ ArgOf("limit") = IF call.op = "selectExcept" THEN 10 ELSE 25
        /\ ArgOf("offset") = 0

\* C6: with a pagination object, selectOnly, selectExcept and selectAll always
\* apply one limit and one offset; when only one of the two is set, it is
\* applied as given and the other is the operation's default (limit 25, or 10
\* for selectExcept; offset 0).
C6_PartialPagination ==
    (/\ call.op \in {"selectOnly", "selectExcept", "selectAll"}
     /\ Accepted
     /\ PaginationOfCall.kind = "object") =>
        /\ Cardinality(OpsNamed("limit")) = 1
        /\ Cardinality(OpsNamed("offset")) = 1
        /\ (PaginationOfCall.limit # None /\ PaginationOfCall.offset = None) =>
              /\ ArgOf("limit") = PaginationOfCall.limit[1]
              /\ ArgOf("offset") = 0
        /\ (PaginationOfCall.limit = None /\ PaginationOfCall.offset # None) =>
              /\ ArgOf("limit") = IF call.op = "selectExcept" THEN 10 ELSE 25
              /\ ArgOf("offset") = PaginationOfCall.offset[1]

\* selectExcept with only an offset: the offset as given, the limit 10
C6_Witness ==
    /\ call.op = "selectExcept"
    /\ Accepted
    /\ PaginationOfCall.kind = "object"
    /\ PaginationOfCall.limit = None
    /\ PaginationOfCall.offset = Some(3)
    /\ ArgOf("limit") = 10
    /\ ArgOf("offset") = 3

\* No filter: undefined, or an array with no truthy entry
NoCondition(where) ==
    \/ where.kind = "absent"
    \/ where.kind = "array" /\ \A i \in 1..Len(where.v) : where.v[i] = Falsy

\* C7: exists fails with the missing-condition error when it is given no filter,
\* an empty filter array or an array of falsy entries, and then builds and
\* executes no query.
C7_MissingCondition ==
    (call.op = "exists" /\ NoCondition(call.where)) =>
        /\ pc = "threw"
        /\ ops = <<>>
        /\ outcome.kind = "error"
        /\ outcome.error.type = "MissingCondition"

\* C8: selectOne's query has limit 1 whatever the caller's limit, and the
\* caller's offset when one is supplied, 0 otherwise.
C8_SelectOneLimitOffset ==
    (call.op = "selectOne" /\ Accepted) =>
        /\ Cardinality(OpsNamed("limit")) = 1
        /\ Cardinality(OpsNamed("offset")) = 1
        /\ ArgOf("limit") = 1
        /\ ArgOf("offset") =
              IF PaginationOfCall.kind = "object" /\ PaginationOfCall.offset # None
              THEN PaginationOfCall.offset[1]
              ELSE 0

\* C9: selectOne returns the first row of the executed result, and undefined
\* when the result is empty: no error, no empty sequence.
C9_SelectOneResult ==
    (call.op = "selectOne" /\ execResult.kind = "resolved") =>
        /\ pc = "returned"
        /\ outcome.kind = "value"
        /\ (execResult.rows = <<>> => outcome.value = Undefined)
        /\ (execResult.rows # <<>> => outcome.value = execResult.rows[1])

C9_Witness ==
    /\ call.op = "selectOne"
    /\ pc = "returned"
    /\ execResult.kind = "resolved"
    /\ execResult.rows = <<>>
    /\ outcome.value = Undefined

RECURSIVE Pow10(_)
Pow10(k) == IF k = 0 THEN 1 ELSE 10 * Pow10(k - 1)

\* The number whose decimal digits, most significant first, are d
RECURSIVE Positional(_)
Positional(d) ==
    IF d = <<>> THEN 0 ELSE d[1] * Pow10(Len(d) - 1) + Positional(Tail(d))

\* C10: getCount returns the first row's aggregate as a number, 0 when there is
\* no row or the aggregate is null or absent; the value is a non-negative
\* integer.
C10_CountResult ==
    (call.op = "getCount" /\ execResult.kind = "resolved") =>
        /\ pc = "returned"
        /\ outcome.kind = "value"
        /\ outcome.value \in Nat
        /\ (execResult.rows = <<>> => outcome.value = 0)
        /\ (execResult.rows # <<>> =>
              LET aggregate == execResult.rows[1].value
              IN  CASE aggregate.t = "number" -> outcome.value = aggregate.n
                    [] aggregate.t = "string" -> outcome.value = Positional(aggregate.digits)
                    [] OTHER -> outcome.value = 0)

\* The aggregate comes back as the string "19"
C10_Witness ==
    /\ call.op = "getCount"
    /\ pc = "returned"
    /\ execResult.kind = "resolved"
    /\ execResult.rows = << [value |-> StringValue(<<1, 9>>)] >>
    /\ outcome.value = 19

\* The names of the builder operations of this call, as a set
OpNames == {ops[i].name : i \in 1..Len(ops)}

\* C11: getCount never invokes limit, offset or groupBy on the count query,
\* whatever the options hold; besides select, from and execute it applies only
\* the where filter and orderBy, each at most once and only when supplied.
C11_CountIgnoresPagination ==
    call.op = "getCount" =>
        /\ OpsNamed("limit") = {}
        /\ OpsNamed("offset") = {}
        /\ OpsNamed("groupBy") = {}
        /\ OpNames \subseteq {"select", "from", "where", "orderBy", "execute"}
        /\ Cardinality(OpsNamed("where")) <= 1
        /\ Cardinality(OpsNamed("orderBy")) <= 1
        /\ (OpsNamed("where") # {} => OptWhere(call.options).kind # "absent")
        /\ (OpsNamed("orderBy") # {} => OptOrderBy(call.options).kind # "absent")

\* getCount given a filter, a grouping, an ordering and a pagination object
C11_Witness ==
    /\ call.op = "getCount"
    /\ call.options = OptionsObject(SomeWhere, SomeGroupBy, SomeOrderBy, SomePagination)
    /\ pc = "awaiting"
    /\ [i \in 1..Len(ops) |-> ops[i].name] =
          <<"select", "from", "where", "orderBy", "execute">>

\* C12: exists returns true exactly when the probe returns at least one row and
\* false when it returns none; the probe has one limit, of 1, and no offset.
C12_ExistsResult ==
    call.op = "exists" =>
        /\ Accepted =>
              /\ Cardinality(OpsNamed("limit")) = 1
              /\ ArgOf("limit") = 1
              /\ OpsNamed("offset") = {}
        /\ execResult.kind = "resolved" =>
              /\ pc = "returned"
              /\ outcome.kind = "value"
              /\ outcome.value \in BOOLEAN
              /\ outcome.value = (Len(execResult.rows) >= 1)

\* The probe came back with one row
C12_Witness ==
    /\ call.op = "exists"
    /\ call.where = Single("c1")
    /\ pc = "returned"
    /\ Len(execResult.rows) = 1
    /\ outcome.value = TRUE
    /\ ArgOf("limit") = 1

\* C13: pluck returns one element per row, the i-th being the named field of
\* the i-th row; its query is the one selectOnly builds for the one-element
\* list of that field; a field the validator rejects fails with the error the
\* validator gives selectOnly for that list.
C13_Pluck ==
    call.op = "pluck" =>
        LET validation == validateFields(call.table, <<call.field>>, "select")
        IN  /\ validation.threw =>
                  /\ pc = "threw"
                  /\ outcome = Error(validation.error)
            /\ ~validation.threw =>
                  ops = SelectOnlyQuery(call.table, <<call.field>>, call.options)
            /\ execResult.kind = "resolved" =>
                  /\ outcome.kind = "value"
                  /\ Len(outcome.value) = Len(execResult.rows)
                  /\ \A i \in 1..Len(execResult.rows) :
                        outcome.value[i] = RowField(execResult.rows[i], call.field)

\* Two different rows, plucked in their order
C13_Witness ==
    /\ call.op = "pluck"
    /\ call.field = "id"
    /\ pc = "returned"
    /\ execResult.kind = "resolved"
    /\ execResult.rows = <<"r2", "r1">>
    /\ outcome.value = << RowField("r2", "id"), RowField("r1", "id") >>

\* The four operations that take the where filter from their options
TakesFilter == call.op \in {"selectOnly", "selectExcept", "selectAll", "getCount"}

\* The call c with the where member of its options replaced
WithWhere(c, w) ==
    [c EXCEPT !.options = OptionsObject(w, OptGroupBy(c.options), OptOrderBy(c.options),
                                        OptPagination(c.options))]

\* C14: in selectOnly, selectExcept, selectAll and getCount a single condition c
\* and the one-element sequence [c] give the same query: the same where
\* operation with the same combined condition, and every other part equal.
C14_SingleOrSequence ==
    (TakesFilter /\ Accepted /\ OptWhere(call.options).kind = "single") =>
        LET c == OptWhere(call.options).v
            other == QueryOf(WithWhere(call, Array(<<c>>)))
        IN  /\ ops = other
            /\ (c # Falsy =>
                  /\ Cardinality(OpsNamed("where")) = 1
                  /\ ArgOf("where") = And(<<c>>))

\* selectAll filtered by the lone condition c2
C14_Witness ==
    /\ call.op = "selectAll"
    /\ OptWhere(call.options) = Single("c2")
    /\ pc = "awaiting"
    /\ ArgOf("where") = And(<<"c2">>)
    /\ ops = QueryOf(WithWhere(call, Array(<<"c2">>)))

\* The entries of the filter the caller supplied
WhereEntries ==
    LET where == OptWhere(call.options)
    IN  CASE where.kind = "absent" -> <<>>
          [] where.kind = "single" -> <<where.v>>
          [] where.kind = "array" -> where.v

\* C15: in those four operations falsy filter entries are dropped; when an
\* entry remains there is exactly one where operation, whose condition is the
\* AND of the remaining entries in their order; an absent, empty or all-falsy
\* filter gives no where operation, and the call does not fail for it.
C15_FalsyDropped ==
    TakesFilter =>
        LET kept == At(WhereEntries, {i \in 1..Len(WhereEntries) : WhereEntries[i] # Falsy})
        IN  /\ (Accepted /\ kept # <<>>) =>
                  /\ Cardinality(OpsNamed("where")) = 1
                  /\ ArgOf("where") = And(kept)
            /\ kept = <<>> =>
                  /\ OpsNamed("where") = {}
                  /\ (~ValidationOf(call).threw => Accepted)
                  /\ (outcome.kind = "error" =>
                        ValidationOf(call).threw \/ execResult.kind = "rejected")

\* getCount given a falsy entry before a condition
C15_Witness ==
    /\ call.op = "getCount"
    /\ OptWhere(call.options) = Array(<<Falsy, "c2">>)
    /\ pc = "awaiting"
    /\ Cardinality(OpsNamed("where")) = 1
    /\ ArgOf("where") = And(<<"c2">>)

\* A validation check of this call fails: the validator rejects the field list,
\* or exists is given no condition
ValidationFails ==
    \/ TakesFields /\ ValidationOf(call).threw
    \/ call.op = "exists" /\ NoCondition(call.where)

\* C16: whenever a validation check fails (a repeated or invalid field in
\* selectOnly, selectExcept or pluck; a missing condition in exists), the error
\* is raised before any external call: the call invokes no database operation.
C16_ValidationBeforeDatabase ==
    ValidationFails =>
        /\ pc = "threw"
        /\ outcome.kind = "error"
        /\ ops = <<>>

\* C17: selectRaw hands the caller's query expression, unchanged, to
\* database.execute exactly once, invokes no other database operation, and
\* returns the result as it came.
C17_SelectRaw ==
    call.op = "selectRaw" =>
        /\ Len(ops) = 1
        /\ ops[1].name = "execute"
        /\ ops[1].arg = Some(call.rawSql)
        /\ execResult.kind = "resolved" =>
              /\ pc = "returned"
              /\ outcome = Value(execResult.rows)

C17_Witness ==
    /\ call.op = "selectRaw"
    /\ call.rawSql = "sql2"
    /\ pc = "returned"
    /\ ops = << Op("execute", Some("sql2")) >>
    /\ execResult.kind = "resolved"
    /\ execResult.rows = <<"r1", "r2">>
    /\ outcome.value = <<"r1", "r2">>

\* C18: when execute rejects, the operation rejects with that same error value,
\* neither wrapped nor changed, and never turns it into a normal result.
C18_RejectionPropagates ==
    execResult.kind = "rejected" =>
        /\ pc = "threw"
        /\ outcome.kind = "error"
        /\ outcome.error = execResult.error

\* getCount, whose result has a fallback, rejected by the executor
C18_Witness ==
    /\ call.op = "getCount"
    /\ pc = "threw"
    /\ execResult.kind = "rejected"
    /\ outcome.kind = "error"
    /\ outcome.error \in ExecErrors

\* The place of each builder operation in the order of the steps
StepRank(name) ==
    CASE name = "select" -> 1
      [] name = "from" -> 2
      [] name = "where" -> 3
      [] name = "groupBy" -> 4
      [] name = "orderBy" -> 5
      [] name = "limit" -> 6
      [] name = "offset" -> 7
      [] name = "execute" -> 8

\* C20: in selectOnly, selectExcept and selectAll the steps come in the order
\* validate, projection, where, groupBy, orderBy, limit, offset, execute: a
\* failed validation leaves nothing built, each builder operation is invoked
\* at most once and in that order, and execute is the last one, also once the
\* call has settled.
C20_StepOrder ==
    call.op \in {"selectOnly", "selectExcept", "selectAll"} =>
        /\ ValidationOf(call).threw => ops = <<>>
        /\ ~ValidationOf(call).threw =>
              /\ Len(ops) >= 3
              /\ ops[1].name = "select"
              /\ ops[2].name = "from"
              /\ ops[Len(ops)].name = "execute"
              /\ \A i, j \in 1..Len(ops) :
                    i < j => StepRank(ops[i].name) < StepRank(ops[j].name)

\* selectOnly with every clause supplied, after the result has come back
C20_Witness ==
    /\ call.op = "selectOnly"
    /\ pc = "returned"
    /\ [i \in 1..Len(ops) |-> ops[i].name] =
          <<"select", "from", "where", "groupBy", "orderBy", "limit", "offset", "execute">>

\* Two calls were given the same arguments / the executor gave them the same
\* answer
SameArguments(s, t) == call[s].op = call[t].op /\ call[s] = call[t]
SameAnswer(s, t) ==
    /\ execResult[s].kind = execResult[t].kind
    /\ execResult[s] = execResult[t]

\* C19: calls share no mutable state.  The builder operations of a call are
\* those its own arguments determine, whatever the other call is doing; two
\* calls with the same arguments, one after the other or interleaved at their
\* awaits, issue the same builder operations and, given the same answer by
\* the executor, settle with the same result.
C19_IndependentCalls ==
    /\ \A s \in Calls :
          pc[s] # "idle" =>
              ops[s] = IF ValidationOf(call[s]).threw THEN <<>> ELSE QueryOf(call[s])
    /\ \A s, t \in Calls :
          (s # t /\ pc[s] # "idle" /\ pc[t] # "idle" /\ SameArguments(s, t)) =>
              /\ ops[s] = ops[t]
              /\ SameAnswer(s, t) =>
                    /\ pc[s] = pc[t]
                    /\ outcome[s].kind = outcome[t].kind
                    /\ outcome[s] = outcome[t]

\* The same selectOnly call twice: one has its rows while the other, started
\* with the same arguments, is still awaiting the executor
C19_Witness ==
    /\ call["first"].op = "selectOnly"
    /\ call["first"].fields = <<"name", "id">>
    /\ call["second"] = call["first"]
    /\ pc["first"] = "returned"
    /\ execResult["first"] = Resolved(<<"r2", "r1">>)
    /\ pc["second"] = "awaiting"
    /\ ops["second"] = ops["first"]
    /\ Len(ops["first"]) = 8

\* C21: a call that passes its validation invokes execute exactly once, pluck
\* and selectOne (which go through selectOnly and selectAll) included, and
\* still exactly once after the executor has rejected: nothing is retried.  A
\* call that fails validation invokes it not at all.
C21_ExecuteOnce ==
    call.op # "none" =>
        /\ ValidationOf(call).threw => OpsNamed("execute") = {}
        /\ ~ValidationOf(call).threw =>
              /\ Cardinality(OpsNamed("execute")) = 1
              /\ ops[Len(ops)].name = "execute"

\* selectOne after the executor has rejected: one execute, no second attempt
C21_Witness ==
    /\ call.op = "selectOne"
    /\ pc = "threw"
    /\ execResult.kind = "rejected"
    /\ Cardinality(OpsNamed("execute")) = 1

\* The entries of a groupBy / orderBy member, as the caller listed them
ListedEntries(member) ==
    CASE member.kind = "single" -> <<member.v>>
      [] member.kind = "array" -> member.v

\* C22: in selectOnly, selectExcept and selectAll a supplied groupBy or orderBy,
\* a single value taken as a one-element sequence, is passed whole and in the
\* listed order to one groupBy / orderBy operation; an absent one gives no
\* operation of that kind.
C22_GroupOrderNormalized ==
    (call.op \in {"selectOnly", "selectExcept", "selectAll"} /\ Accepted) =>
        LET groupBy == OptGroupBy(call.options)
            orderBy == OptOrderBy(call.options)
        IN  /\ groupBy.kind = "absent" => OpsNamed("groupBy") = {}
            /\ groupBy.kind # "absent" =>
                  /\ Cardinality(OpsNamed("groupBy")) = 1
                  /\ ArgOf("groupBy") = ListedEntries(groupBy)
            /\ orderBy.kind = "absent" => OpsNamed("orderBy") = {}
            /\ orderBy.kind # "absent" =>
                  /\ Cardinality(OpsNamed("orderBy")) = 1
                  /\ ArgOf("orderBy") = ListedEntries(orderBy)

\* selectExcept ordered by o2 then o1 and grouped by g1, g2
C22_Witness ==
    /\ call.op = "selectExcept"
    /\ OptOrderBy(call.options) = Array(<<"o2", "o1">>)
    /\ OptGroupBy(call.options) = SomeGroupBy
    /\ pc = "awaiting"
    /\ ArgOf("orderBy") = <<"o2", "o1">>
    /\ ArgOf("groupBy") = <<"g1", "g2">>

\* The keys of the column map handed to database.select
SelectedKeys == {e.key : e \in SelectedColumns}

\* C23: whenever validateFields accepts selectOnly's field list, every listed
\* name is an own, non-reserved key of the table and the projection has exactly
\* one column per listed name: no accepted name is missing from it, a name the
\* table only inherits included.
C23_AcceptedNamesProjected ==
    (call.op = "selectOnly" /\ Accepted) =>
        /\ \A i \in 1..Len(call.fields) :
              call.fields[i] \in OwnKeys(call.table) \ {ReservedKey}
        /\ SelectedKeys = Range(call.fields)
        /\ Len(ops[1].arg.columns) = Len(call.fields)

\* C24: for a field list F the validator accepts, the projection selectOnly
\* builds for F and the one selectExcept builds for F have no column in common
\* and together hold exactly the non-reserved columns of the table, each with
\* its own descriptor.
C24_Complement ==
    (call.op \in {"selectOnly", "selectExcept"} /\ Accepted) =>
        LET only == Range(IncludeColumns(call.table, call.fields))
            except == Range(ExcludeColumns(call.table, call.fields))
        IN  /\ SelectedColumns = IF call.op = "selectOnly" THEN only ELSE except
            /\ ~validateFields(call.table, call.fields, "select").threw
            /\ ~validateFields(call.table, call.fields, "exclude").threw
            /\ only \cap except = {}
            /\ only \cup except =
                  {e \in Range(call.table.entries) : e.key # ReservedKey}

\* selectExcept of name from users: it projects id, selectOnly would project name
C24_Witness ==
    /\ call.op = "selectExcept"
    /\ call.table = users
    /\ call.fields = <<"name">>
    /\ pc = "awaiting"
    /\ ops[1].arg.columns = << [key |-> "id", value |-> "users.id"] >>
    /\ IncludeColumns(users, <<"name">>) = << [key |-> "name", value |-> "users.name"] >>

=============================================================================
